---- MODULE Spec2Model ----
(***************************************************************************)
(* A model of src/github_workflow.py: the GithubWorkflow command line      *)
(* driver, its version arithmetic and its interaction with git and the     *)
(* file system.                                                            *)
(*                                                                         *)
(* Python strings that the code takes apart (tags, versions, the label     *)
(* argument) are sequences of one-character strings.  A raw line of the    *)
(* `git log` output is a sequence of tokens in which "|" is the separator  *)
(* character and every other token is a run of characters without "|".     *)
(***************************************************************************)
EXTENDS Integers, Sequences, FiniteSets, TLC

(***************************************************************************)
(* Bounds of the model.                                                    *)
(***************************************************************************)
MaxTags == 2
MaxCommits == 2
MaxCount == 2

(***************************************************************************)
(* Python's str and int primitives, as far as the code uses them.          *)
(***************************************************************************)
Digits == <<"0", "1", "2", "3", "4", "5", "6", "7", "8", "9">>

IsDigit(c) == \E i \in 1..Len(Digits) : Digits[i] = c

DigitVal(c) == (CHOOSE i \in 1..Len(Digits) : Digits[i] = c) - 1

RECURSIVE LStrip(_, _)
LStrip(s, c) == IF s # <<>> /\ Head(s) = c THEN LStrip(Tail(s), c) ELSE s

RECURSIVE RStrip(_, _)
RStrip(s, c) ==
    IF s # <<>> /\ s[Len(s)] = c THEN RStrip(SubSeq(s, 1, Len(s) - 1), c) ELSE s

\* str.strip(c) for a one-character argument: every leading and trailing c.
Strip(s, c) == RStrip(LStrip(s, c), c)

\* str.split(sep): the pieces between the separators, empty pieces kept.
RECURSIVE Split(_, _)
Split(s, sep) ==
    IF \E i \in 1..Len(s) : s[i] = sep
    THEN LET i == CHOOSE k \in 1..Len(s) :
                      s[k] = sep /\ \A j \in 1..(k - 1) : s[j] # sep
         IN  <<SubSeq(s, 1, i - 1)>> \o Split(SubSeq(s, i + 1, Len(s)), sep)
    ELSE <<s>>

\* sep.join(parts)
RECURSIVE Join(_, _)
Join(parts, sep) ==
    IF parts = <<>> THEN <<>>
    ELSE IF Len(parts) = 1 THEN parts[1]
    ELSE parts[1] \o <<sep>> \o Join(Tail(parts), sep)

\* int(s) succeeds on an optional sign followed by one or more digits
\* (for strings over digits, letters, ".", "-" and "+").
Unsigned(s) == IF s # <<>> /\ Head(s) \in {"-", "+"} THEN Tail(s) ELSE s

IntParses(s) == Unsigned(s) # <<>> /\ \A i \in 1..Len(Unsigned(s)) : IsDigit(Unsigned(s)[i])

RECURSIVE NatOf(_)
NatOf(s) ==
    IF s = <<>> THEN 0
    ELSE 10 * NatOf(SubSeq(s, 1, Len(s) - 1)) + DigitVal(s[Len(s)])

IntOf(s) == IF s # <<>> /\ Head(s) = "-" THEN 0 - NatOf(Unsigned(s)) ELSE NatOf(Unsigned(s))

RECURSIVE StrNat(_)
StrNat(n) == IF n < 10 THEN <<Digits[n + 1]>> ELSE StrNat(n \div 10) \o <<Digits[(n % 10) + 1]>>

\* str(n)
Str(n) == IF n < 0 THEN <<"-">> \o StrNat(0 - n) ELSE StrNat(n)

\* Python's < on tuples of integers: lexicographic, a proper prefix is smaller.
RECURSIVE TupleLess(_, _)
TupleLess(a, b) ==
    IF b = <<>> THEN FALSE
    ELSE IF a = <<>> THEN TRUE
    ELSE IF Head(a) # Head(b) THEN Head(a) < Head(b)
    ELSE TupleLess(Tail(a), Tail(b))

(***************************************************************************)
(* Version arithmetic: get_current_version's sort key and selection,       *)
(* determine_next_version and determine_version_bump.                      *)
(***************************************************************************)
\* x.strip('v').split('.')
KeyParts(x) == Split(Strip(x, "v"), ".")

\* int() raises ValueError on some component of x.
KeyRaises(x) == \E i \in 1..Len(KeyParts(x)) : ~IntParses(KeyParts(x)[i])

\* The sort key: tuple(map(int, x.strip('v').split('.')))
Key(x) == [i \in 1..Len(KeyParts(x)) |-> IntOf(KeyParts(x)[i])]

\* sorted(tags, key=Key): a stable sort, ascending by key.
RECURSIVE SortedByKey(_)
SortedByKey(tags) ==
    IF tags = <<>> THEN <<>>
    ELSE LET front == SortedByKey(SubSeq(tags, 1, Len(tags) - 1))
             x == tags[Len(tags)]
             p == Cardinality({i \in 1..Len(front) : ~TupleLess(Key(x), Key(front[i]))})
         IN  SubSeq(front, 1, p) \o <<x>> \o SubSeq(front, p + 1, Len(front))

V000 == <<"v", "0", ".", "0", ".", "0">>

\* get_current_version raises ValueError: some tag of a non-empty list has a
\* component that int() rejects.
get_current_version_raises(tags) == \E i \in 1..Len(tags) : KeyRaises(tags[i])

\* A variant that trusts the order of `git tag`: tags[-1] without the sort.
get_current_version_unsorted(tags) ==
    IF tags # <<>> THEN tags[Len(tags)] ELSE V000

\* get_current_version's return value on the list fetch_tags gave it.
get_current_version(tags) ==
    IF tags # <<>> THEN SortedByKey(tags)[Len(tags)] ELSE V000

VARIABLES
    args,             \* the parsed command line: config_git, branch_name, pr_labels
    pc,               \* the statement the process is at
    exit_status,      \* "none" while running, then "0", "1", "2" or "signal"
    exception,        \* the exception that ended the process, "" if none
    called,           \* the methods process_arguments has called
    stdout,           \* what print() wrote
    stderr,           \* what parser.error wrote
    git_config,       \* git's global user.email and user.name
    repo_tags,        \* the tags of the repository
    failed,           \* the git commands that exited non-zero
    dir_exists,       \* .artifacts/<branch_name> exists
    file,             \* .artifacts/<branch_name>/version_details.json
    breaking_count,   \* self.breaking_count
    minor_count,      \* self.minor_count
    patch_count,      \* self.patch_count
    gcv_tags,         \* get_current_version's local `tags`
    current_version,  \* write_version_details_to_file's locals
    commit_messages,
    next_version,
    bump_type,
    version_details

vars == <<args, pc, exit_status, exception, called, stdout, stderr, git_config,
          repo_tags, failed, dir_exists, file, breaking_count,
          minor_count, patch_count, gcv_tags, current_version, commit_messages,
          next_version, bump_type, version_details>>

\* parts[i] = ... or parts[i] += 1 raises IndexError in determine_next_version.
determine_next_version_raises(version) ==
    \/ KeyRaises(version)
    \/ /\ breaking_count > 0 \/ minor_count > 0 \/ patch_count > 0
       /\ Len(KeyParts(version)) < 3

\* A variant whose patch branch leaves parts[2] as it is.
determine_next_version_patch_dropped(version) ==
    LET parts == Key(version)
        bumped ==
            IF breaking_count > 0
            THEN [parts EXCEPT ![1] = @ + 1, ![2] = 0, ![3] = 0]
            ELSE IF minor_count > 0
            THEN [parts EXCEPT ![2] = @ + 1, ![3] = 0]
            ELSE parts
    IN  <<"v">> \o Join([i \in 1..Len(bumped) |-> Str(bumped[i])], ".")

determine_next_version(version) ==
    LET parts == Key(version)
        bumped ==
            IF breaking_count > 0
            THEN [parts EXCEPT ![1] = @ + 1, ![2] = 0, ![3] = 0]
            ELSE IF minor_count > 0
            THEN [parts EXCEPT ![2] = @ + 1, ![3] = 0]
            ELSE IF patch_count > 0
            THEN [parts EXCEPT ![3] = @ + 1]
            ELSE parts
    IN  <<"v">> \o Join([i \in 1..Len(bumped) |-> Str(bumped[i])], ".")

\* A variant that tests minor_count before breaking_count.
determine_version_bump_minor_first ==
    IF minor_count > 0 THEN "Minor"
    ELSE IF breaking_count > 0 THEN "Major"
    ELSE IF patch_count > 0 THEN "Patch"
    ELSE "None"

determine_version_bump ==
    IF breaking_count > 0 THEN "Major"
    ELSE IF minor_count > 0 THEN "Minor"
    ELSE IF patch_count > 0 THEN "Patch"
    ELSE "None"

(***************************************************************************)
(* The inputs: tags of the repository, lines of the commit log, arguments. *)
(***************************************************************************)
Tag_v1_9_0 == <<"v", "1", ".", "9", ".", "0">>
Tag_v1_10_0 == <<"v", "1", ".", "1", "0", ".", "0">>
Tag_1_2_0 == <<"1", ".", "2", ".", "0">>
Tag_v3_0 == <<"v", "3", ".", "0">>
Tag_not_a_version ==
    <<"n", "o", "t", "-", "a", "-", "v", "e", "r", "s", "i", "o", "n">>

TagPool ==
    {Tag_v1_9_0, Tag_v1_10_0, Tag_1_2_0, Tag_v3_0, Tag_not_a_version}

TagSets == {S \in SUBSET TagPool : Cardinality(S) <= MaxTags}

\* The pool in the order of `git tag`, which sorts by name.
TagOrder == <<Tag_1_2_0, Tag_not_a_version, Tag_v1_10_0, Tag_v1_9_0, Tag_v3_0>>

\* What `git tag` prints for a set of tags, split at white space.
Listing(S) == SelectSeq(TagOrder, LAMBDA t : t \in S)

GoodDate == "Mon Jan 1 10:00:00 2024 +0000"

\* datetime.strptime(field, '%a %b %d %H:%M:%S %Y %z') succeeds.
DateParses(field) == field = <<GoodDate>>

RawLine(author, subject) ==
    <<"3f2a9c1">> \o <<"|">> \o author \o <<"|", "ann@example.com", "|", GoodDate, "|">> \o subject

Msg_breaking == "feat!: drop the old api"
Msg_feat == "feat: add X"
Msg_fix == "fix: typo"
Msg_plain == "update the readme"

\* Lines of the form %H|%an|%ae|%ad|%s; an author's name may hold a "|".
LinePool ==
    {RawLine(<<"Ann">>, <<Msg_breaking>>), RawLine(<<"Ann">>, <<Msg_feat>>),
     RawLine(<<"Ann">>, <<Msg_fix>>), RawLine(<<"Ann">>, <<Msg_plain>>),
     RawLine(<<"Ann ", "|", " Lee">>, <<Msg_fix>>)}

\* raw_commits.strip().split('\n'): the output without commits is one empty line.
RawLogs ==
    {<<<<>>>>} \cup UNION {[1..n -> LinePool] : n \in 1..MaxCommits}

NoneArg == [is_none |-> TRUE, value |-> <<>>]
StrArg(s) == [is_none |-> FALSE, value |-> s]
Truthy(a) == ~a.is_none /\ a.value # <<>>

BranchMain == <<"m", "a", "i", "n">>

ArgSets ==
    [config_git : BOOLEAN,
     branch_name : {NoneArg, StrArg(<<>>), StrArg(BranchMain)},
     pr_labels : {<<>>, <<"b", "u", "g", ",", "c", "i">>}]

Unset == [unset |-> TRUE]

FilePath == [directory |-> <<".artifacts", args.branch_name.value>>, name |-> "version_details.json"]

(***************************************************************************)
(* The state after GithubWorkflow() and parser.parse_args().               *)
(***************************************************************************)
Locals ==
    /\ gcv_tags = <<>>
    /\ current_version = <<>>
    /\ commit_messages = <<>>
    /\ next_version = <<>>
    /\ bump_type = ""
    /\ version_details = Unset

Process ==
    /\ exit_status = "none"
    /\ exception = ""
    /\ stdout = <<>>
    /\ stderr = <<>>
    /\ failed = {}

Init ==
    /\ args \in ArgSets
    /\ pc = "start"
    /\ Process
    /\ called = {}
    /\ git_config = [email |-> "", name |-> ""]
    /\ repo_tags \in TagSets
    /\ file \in {[state |-> "absent", content |-> Unset],
                 [state |-> "previous", content |-> Unset]}
    /\ dir_exists = (file.state = "previous")
    /\ breaking_count = 0
    /\ minor_count = 0
    /\ patch_count = 0
    /\ Locals

(***************************************************************************)
(* The process.  An uncaught exception ends it with status 1.              *)
(***************************************************************************)
\* A git command that exited non-zero, with the statement that ran it.
Failure(command) == [command |-> command, at |-> pc]

Raise(e) ==
    /\ pc' = "exit"
    /\ exit_status' = "1"
    /\ exception' = e

\* A variant without the try/except: the failure of `git tag` propagates.
fetch_tags_uncaught ==
    {[failed |-> TRUE, raises |-> "CalledProcessError", tags |-> <<>>],
     [failed |-> FALSE, raises |-> "", tags |-> Listing(repo_tags)]}

\* subprocess.check_output(['git', 'tag']) inside fetch_tags' try/except: the
\* lists it can return, with whether the command failed.
fetch_tags ==
    {[failed |-> TRUE, raises |-> "", tags |-> <<>>],
     [failed |-> FALSE, raises |-> "", tags |-> Listing(repo_tags)]}

\* subprocess.check_output(['git', 'log', f'{current_version}..HEAD', ...]):
\* git exits non-zero when the revision does not resolve, and may fail for any
\* other reason; check_output then raises CalledProcessError.
git_log(version) ==
    {[failed |-> TRUE, raises |-> "CalledProcessError", lines |-> <<>>]}
        \cup (IF version \in repo_tags
              THEN {[failed |-> FALSE, raises |-> "", lines |-> l] : l \in RawLogs}
              ELSE {})

\* A variant without the final else: a missing branch name falls through to
\* the versioning task.
dispatch_no_usage_error ==
    IF args.config_git THEN "set_git_config" ELSE "write_version_details_to_file"

\* The branch process_arguments takes.
dispatch ==
    IF args.config_git THEN "set_git_config"
    ELSE IF Truthy(args.branch_name) THEN "write_version_details_to_file"
    ELSE "parser.error"

\* The lines the comprehension keeps: `if line`.
NonEmptyLines(lines) == SelectSeq(lines, LAMBDA l : l # <<>>)

\* The exception the comprehension of fetch_commit_messages raises on a line,
\* "" when it raises none.
LineRaises(line) ==
    LET fields == Split(line, "|")
    IN  IF Len(fields) < 5 THEN "IndexError"
        ELSE IF ~DateParses(fields[4]) THEN "ValueError"
        ELSE ""

\* CommitDetail(message=..[4], author=..[1], email=..[2], date=..[3])
CommitDetail(line) ==
    LET fields == Split(line, "|")
    IN  [message |-> fields[5], author |-> fields[2], email |-> fields[3],
         date |-> fields[4]]

process_arguments ==
    /\ pc = "start"
    /\ IF dispatch = "set_git_config"
       THEN /\ called' = called \cup {"set_git_config"}
            /\ pc' = "config_email"
            /\ UNCHANGED <<exit_status, stderr>>
       ELSE IF dispatch = "write_version_details_to_file"
       THEN /\ called' = called \cup {"write_version_details_to_file"}
            /\ pc' = "get_current_version"
            /\ UNCHANGED <<exit_status, stderr>>
       ELSE /\ stderr' = Append(stderr,
                "Branch name is required for versioning tasks unless configuring git.")
            /\ exit_status' = "2"
            /\ pc' = "exit"
            /\ UNCHANGED called
    /\ UNCHANGED <<args, exception, stdout, git_config, repo_tags, failed, dir_exists, file, breaking_count, minor_count,
                   patch_count, gcv_tags, current_version, commit_messages,
                   next_version, bump_type, version_details>>

set_git_config_email ==
    /\ pc = "config_email"
    /\ \E ok \in BOOLEAN :
          IF ok
          THEN /\ git_config' = [git_config EXCEPT !.email = "user@example.com"]
               /\ pc' = "config_name"
               /\ UNCHANGED <<exit_status, exception, failed>>
          ELSE /\ failed' = failed \cup {Failure("git config user.email")}
               /\ Raise("CalledProcessError")
               /\ UNCHANGED git_config
    /\ UNCHANGED <<args, called, stdout, stderr, repo_tags, dir_exists, file, breaking_count, minor_count, patch_count,
                   gcv_tags, current_version, commit_messages, next_version,
                   bump_type, version_details>>

set_git_config_name ==
    /\ pc = "config_name"
    /\ \E ok \in BOOLEAN :
          IF ok
          THEN /\ git_config' = [git_config EXCEPT !.name = "GitHub User"]
               /\ stdout' = Append(stdout, [text |-> "Git configuration set successfully."])
               /\ pc' = "exit"
               /\ exit_status' = "0"
               /\ UNCHANGED <<exception, failed>>
          ELSE /\ failed' = failed \cup {Failure("git config user.name")}
               /\ Raise("CalledProcessError")
               /\ UNCHANGED <<git_config, stdout>>
    /\ UNCHANGED <<args, called, stderr, repo_tags, dir_exists,
                   file, breaking_count, minor_count, patch_count, gcv_tags,
                   current_version, commit_messages, next_version, bump_type,
                   version_details>>

get_current_version_call ==
    /\ pc = "get_current_version"
    /\ \E out \in fetch_tags :
          /\ failed' = IF out.failed THEN failed \cup {Failure("git tag")} ELSE failed
          /\ IF out.raises # ""
             THEN /\ Raise(out.raises)
                  /\ UNCHANGED <<gcv_tags, current_version>>
             ELSE IF get_current_version_raises(out.tags)
             THEN /\ gcv_tags' = out.tags
                  /\ Raise("ValueError")
                  /\ UNCHANGED current_version
             ELSE /\ gcv_tags' = out.tags
                  /\ current_version' = get_current_version(out.tags)
                  /\ pc' = "fetch_commit_messages"
                  /\ UNCHANGED <<exit_status, exception>>
    /\ UNCHANGED <<args, called, stdout, stderr, git_config, repo_tags,
                   dir_exists, file, breaking_count, minor_count,
                   patch_count, commit_messages, next_version, bump_type,
                   version_details>>

fetch_commit_messages ==
    /\ pc = "fetch_commit_messages"
    /\ \E out \in git_log(current_version) :
          LET lines == NonEmptyLines(out.lines)
              bad == {i \in 1..Len(lines) : LineRaises(lines[i]) # ""}
          IN  IF out.raises # ""
              THEN /\ failed' = failed \cup {Failure("git log")}
                   /\ Raise(out.raises)
                   /\ UNCHANGED commit_messages
              ELSE IF bad # {}
              THEN /\ Raise(LineRaises(lines[CHOOSE i \in bad : \A j \in bad : i <= j]))
                   /\ UNCHANGED <<failed, commit_messages>>
              ELSE /\ commit_messages' = [i \in 1..Len(lines) |-> CommitDetail(lines[i])]
                   /\ pc' = "determine_next_version"
                   /\ UNCHANGED <<failed, exit_status, exception>>
    /\ UNCHANGED <<args, called, stdout, stderr, git_config, repo_tags,
                   dir_exists, file, breaking_count, minor_count,
                   patch_count, gcv_tags, current_version, next_version,
                   bump_type, version_details>>

determine_next_version_call ==
    /\ pc = "determine_next_version"
    /\ IF determine_next_version_raises(current_version)
       THEN /\ Raise("IndexError")
            /\ UNCHANGED next_version
       ELSE /\ next_version' = determine_next_version(current_version)
            /\ pc' = "version_details"
            /\ UNCHANGED <<exit_status, exception>>
    /\ UNCHANGED <<args, called, stdout, stderr, git_config, repo_tags,
                   failed, dir_exists, file, breaking_count,
                   minor_count, patch_count, gcv_tags, current_version,
                   commit_messages, bump_type, version_details>>

\* VersionDetails(...), with its calls of determine_version_bump, fetch_tags
\* and pr_labels.split(',').
build_version_details ==
    /\ pc = "version_details"
    /\ \E out \in fetch_tags :
          /\ failed' = IF out.failed THEN failed \cup {Failure("git tag")} ELSE failed
          /\ bump_type' = determine_version_bump
          /\ IF out.raises # ""
             THEN /\ Raise(out.raises)
                  /\ UNCHANGED version_details
             ELSE /\ version_details' =
                        [current_version |-> current_version,
                         next_version |-> next_version,
                         bump_type |-> determine_version_bump,
                         commit_messages |-> commit_messages,
                         tags |-> out.tags,
                         pr_labels |-> Split(args.pr_labels, ",")]
                  /\ pc' = "makedirs"
                  /\ UNCHANGED <<exit_status, exception>>
    /\ UNCHANGED <<args, called, stdout, stderr,
                   git_config, repo_tags, dir_exists, file,
                   breaking_count, minor_count, patch_count, gcv_tags,
                   current_version, commit_messages, next_version>>

makedirs ==
    /\ pc = "makedirs"
    /\ \E ok \in BOOLEAN :
          IF ok \/ dir_exists
          THEN /\ dir_exists' = TRUE
               /\ pc' = "open"
               /\ UNCHANGED <<exit_status, exception>>
          ELSE /\ Raise("OSError")
               /\ UNCHANGED dir_exists
    /\ UNCHANGED <<args, called, stdout, stderr, git_config, repo_tags,
                   failed, file, breaking_count, minor_count,
                   patch_count, gcv_tags, current_version, commit_messages,
                   next_version, bump_type, version_details>>

\* open(file_path, 'w') creates the file or truncates it to length zero.
open_file ==
    /\ pc = "open"
    /\ \E ok \in BOOLEAN :
          IF ok
          THEN /\ file' = [state |-> "partial", content |-> Unset]
               /\ pc' = "write"
               /\ UNCHANGED <<exit_status, exception>>
          ELSE /\ Raise("OSError")
               /\ UNCHANGED file
    /\ UNCHANGED <<args, called, stdout, stderr, git_config, repo_tags,
                   failed, dir_exists, breaking_count, minor_count,
                   patch_count, gcv_tags, current_version, commit_messages,
                   next_version, bump_type, version_details>>

\* file.write(version_details.json(indent=4)) and the close of the with block.
write_file ==
    /\ pc = "write"
    /\ \E ok \in BOOLEAN :
          IF ok
          THEN /\ file' = [state |-> "complete", content |-> version_details]
               /\ pc' = "return"
               /\ UNCHANGED <<exit_status, exception>>
          ELSE /\ Raise("OSError")
               /\ UNCHANGED file
    /\ UNCHANGED <<args, called, stdout, stderr, git_config, repo_tags,
                   failed, dir_exists, breaking_count, minor_count,
                   patch_count, gcv_tags, current_version, commit_messages,
                   next_version, bump_type, version_details>>

\* return f"Version details written to {file_path}", printed by the caller.
return_message ==
    /\ pc = "return"
    /\ stdout' = Append(stdout, [text |-> "Version details written to", path |-> FilePath])
    /\ pc' = "exit"
    /\ exit_status' = "0"
    /\ UNCHANGED <<args, exception, called, stderr, git_config, repo_tags,
                   failed, dir_exists, file, breaking_count,
                   minor_count, patch_count, gcv_tags, current_version,
                   commit_messages, next_version, bump_type, version_details>>

\* The host ends the process by a signal, at any statement.
interrupt ==
    /\ pc # "exit"
    /\ pc' = "exit"
    /\ exit_status' = "signal"
    /\ UNCHANGED <<args, exception, called, stdout, stderr, git_config,
                   repo_tags, failed, dir_exists, file,
                   breaking_count, minor_count, patch_count, gcv_tags,
                   current_version, commit_messages, next_version, bump_type,
                   version_details>>

\* Someone else creates or deletes a tag between two git commands of a run.
tags_change ==
    /\ pc \in {"fetch_commit_messages", "version_details"}
    /\ \E t \in TagPool :
          /\ t \in repo_tags \/ Cardinality(repo_tags) < MaxTags
          /\ repo_tags' = IF t \in repo_tags THEN repo_tags \ {t} ELSE repo_tags \cup {t}
    /\ UNCHANGED <<args, pc, exit_status, exception, called, stdout, stderr,
                   git_config, failed, dir_exists, file, breaking_count,
                   minor_count, patch_count, gcv_tags, current_version,
                   commit_messages, next_version, bump_type, version_details>>

Next ==
    \/ process_arguments
    \/ set_git_config_email
    \/ set_git_config_name
    \/ get_current_version_call
    \/ fetch_commit_messages
    \/ determine_next_version_call
    \/ build_version_details
    \/ makedirs
    \/ open_file
    \/ write_file
    \/ return_message
    \/ interrupt
    \/ tags_change

Spec == Init /\ [][Next]_vars

(***************************************************************************)
(* The version calculator on its own: determine_next_version and           *)
(* determine_version_bump applied to every current version and every       *)
(* triple of counters within the bounds.                                   *)
(***************************************************************************)
VersionPool ==
    {v \in TagPool \cup {V000} : ~KeyRaises(v) /\ Len(KeyParts(v)) = 3}

InitCalc ==
    /\ args = [config_git |-> FALSE, branch_name |-> StrArg(BranchMain), pr_labels |-> <<>>]
    /\ pc = "determine_next_version"
    /\ Process
    /\ called = {"write_version_details_to_file"}
    /\ git_config = [email |-> "", name |-> ""]
    /\ repo_tags = {}
    /\ dir_exists = FALSE
    /\ file = [state |-> "absent", content |-> Unset]
    /\ breaking_count \in 0..MaxCount
    /\ minor_count \in 0..MaxCount
    /\ patch_count \in 0..MaxCount
    /\ gcv_tags = <<>>
    /\ current_version \in VersionPool
    /\ commit_messages = <<>>
    /\ next_version = <<>>
    /\ bump_type = ""
    /\ version_details = Unset

NextCalc ==
    \/ determine_next_version_call
    \/ build_version_details

SpecCalc == InitCalc /\ [][NextCalc]_vars

(***************************************************************************)
(* Vocabulary of the properties.                                           *)
(***************************************************************************)
Range(seq) == {seq[i] : i \in 1..Len(seq)}

\* A tag of the form [v]<digits>.<digits>.<digits>.
ValidTag(t) ==
    LET body == IF t # <<>> /\ Head(t) = "v" THEN Tail(t) ELSE t
        parts == Split(body, ".")
    IN  /\ Len(parts) = 3
        /\ \A i \in 1..3 : parts[i] # <<>> /\ \A j \in 1..Len(parts[i]) : IsDigit(parts[i][j])

\* The valid tags of the pool, and the lists made of them.
ValidTags == {t \in TagPool : ValidTag(t)}
AllValid(tags) == Range(tags) \subseteq ValidTags

\* The conventional-commit class of a subject line.
IsBreaking(message) == message = <<Msg_breaking>>
IsMinor(message) == message = <<Msg_feat>>
IsPatch(message) == message = <<Msg_fix>>
HasMarker(message) == IsBreaking(message) \/ IsMinor(message) \/ IsPatch(message)

\* get_current_version has returned / has raised.
GcvReturned == current_version # <<>>
GcvRaised == exception = "ValueError" /\ current_version = <<>>

\* The numeric tuple of each valid tag.
TupleOf == [t \in ValidTags |-> Key(t)]

\* t has the greatest (major, minor, patch) tuple among the valid tags S.
Greatest(t, S) == t \in S /\ \A u \in S : ~TupleLess(TupleOf[t], TupleOf[u])

RecordBuilt == version_details # Unset

\* A run on valid tags in which no git command failed and no tag changed.
QuietRun ==
    /\ failed = {}
    /\ AllValid(gcv_tags)
    /\ RecordBuilt => version_details.tags = gcv_tags

\* C1: a run whose commits hold a breaking-marked message records bump_type
\* Major and next_version (major+1, 0, 0) (stated for runs on valid tags in
\* which no git command fails).
C1_BreakingDominates ==
    (RecordBuilt /\ QuietRun
       /\ \E i \in 1..Len(version_details.commit_messages) :
             IsBreaking(version_details.commit_messages[i].message))
    => /\ version_details.bump_type = "Major"
       /\ Key(version_details.next_version)
             = <<Key(version_details.current_version)[1] + 1, 0, 0>>

\* C2: for every version and every triple of counters the two functions pick
\* one class by the priority breaking > minor > patch and the next version is
\* (major+1, 0, 0), (major, minor+1, 0), (major, minor, patch+1) or unchanged.
C2_PriorityOfBumps ==
    RecordBuilt =>
        LET cur == Key(version_details.current_version)
            nxt == Key(version_details.next_version)
            bump == version_details.bump_type
        IN  /\ breaking_count > 0
                 => bump = "Major" /\ nxt = <<cur[1] + 1, 0, 0>>
            /\ (breaking_count = 0 /\ minor_count > 0)
                 => bump = "Minor" /\ nxt = <<cur[1], cur[2] + 1, 0>>
            /\ (breaking_count = 0 /\ minor_count = 0 /\ patch_count > 0)
                 => bump = "Patch" /\ nxt = <<cur[1], cur[2], cur[3] + 1>>
            /\ (breaking_count = 0 /\ minor_count = 0 /\ patch_count = 0)
                 => bump = "None" /\ nxt = cur

C2_Witness ==
    /\ RecordBuilt
    /\ breaking_count > 0 /\ minor_count > 0 /\ patch_count > 0
    /\ version_details.bump_type = "Major"
    /\ version_details.current_version = Tag_v1_9_0
    /\ Key(version_details.next_version) = <<2, 0, 0>>

\* C3: on a list of valid tags get_current_version returns the tag with the
\* greatest (major, minor, patch) tuple, on the empty list v0.0.0, and does
\* not raise.
C3_GreatestValidTag ==
    AllValid(gcv_tags)
    => /\ ~GcvRaised
       /\ GcvReturned
            => IF gcv_tags = <<>> THEN current_version = V000
               ELSE Greatest(current_version, Range(gcv_tags))

C3_Witness ==
    /\ gcv_tags = <<Tag_v1_10_0, Tag_v1_9_0>>
    /\ current_version = Tag_v1_10_0

\* C4: malformed tags are left out and are never fatal: get_current_version
\* returns the greatest valid tag of the list (v0.0.0 if none is valid) and
\* does not raise.
C4_MalformedTagsSkipped ==
    LET valid == Range(gcv_tags) \cap ValidTags
    IN  /\ ~GcvRaised
        /\ GcvReturned
             => IF valid = {} THEN current_version = V000
                ELSE Greatest(current_version, valid)

\* C5: next_version >= current_version in the (major, minor, patch) order,
\* with equality exactly when the bump class is None.
C5_NextNotBelowCurrent ==
    RecordBuilt =>
        LET cur == Key(version_details.current_version)
            nxt == Key(version_details.next_version)
        IN  /\ ~TupleLess(nxt, cur)
            /\ (nxt = cur) <=> (version_details.bump_type = "None")

C5_Witness ==
    /\ RecordBuilt
    /\ version_details.bump_type = "Patch"
    /\ TupleLess(Key(version_details.current_version), Key(version_details.next_version))

\* C6: when no commit message has a recognized marker, bump_type is None and
\* the next_version string is the very string get_current_version returned
\* (stated for runs on valid tags in which no git command fails).
C6_NoMarkerSameString ==
    (RecordBuilt /\ QuietRun
       /\ \A i \in 1..Len(version_details.commit_messages) :
             ~HasMarker(version_details.commit_messages[i].message))
    => /\ version_details.bump_type = "None"
       /\ version_details.next_version = version_details.current_version

\* C7: when the process is interrupted or fails, version_details.json is
\* absent, is the previous file, or holds the complete record: never a partly
\* written file.
C7_NoPartialFile ==
    (pc = "exit" /\ exit_status \in {"1", "signal"}) => file.state # "partial"

\* C8: an invocation performs at most one of the two modes, one that ends
\* without a usage error and without a signal has performed exactly one, and
\* with neither --config-git nor --branch-name it ends in the usage error with
\* status 2 and leaves the artifact untouched.
C8_OneModeOrUsageError ==
    /\ Cardinality(called) <= 1
    /\ "set_git_config" \in called => args.config_git
    /\ "write_version_details_to_file" \in called
          => ~args.config_git /\ ~args.branch_name.is_none
    /\ (pc = "exit" /\ exit_status \in {"0", "1"}) => Cardinality(called) = 1
    /\ (~args.config_git /\ args.branch_name.is_none /\ pc = "exit" /\ exit_status # "signal")
          => /\ exit_status = "2"
             /\ stderr # <<>>
             /\ called = {}
             /\ version_details = Unset
             /\ file.state \in {"absent", "previous"}
             /\ git_config = [email |-> "", name |-> ""]

C8_Witness ==
    /\ ~args.config_git /\ args.branch_name.is_none
    /\ pc = "exit" /\ exit_status = "2"
    /\ file.state = "absent"

TagListingFailedIn(at) == [command |-> "git tag", at |-> at] \in failed
CommitLogFailed == [command |-> "git log", at |-> "fetch_commit_messages"] \in failed

\* C9: a failed tag listing is taken as the empty tag set (the run goes on
\* with v0.0.0); a failed commit log ends the run with the exception and
\* without any artifact.
C9_TagFailureRecoveredLogFailureFatal ==
    /\ TagListingFailedIn("get_current_version")
          => /\ gcv_tags = <<>>
             /\ current_version = V000
             /\ pc # "get_current_version"
    /\ TagListingFailedIn("version_details")
          => RecordBuilt /\ version_details.tags = <<>>
    /\ CommitLogFailed
          => /\ pc = "exit"
             /\ exit_status = "1"
             /\ exception = "CalledProcessError"
             /\ ~RecordBuilt
             /\ file.state \in {"absent", "previous"}
             /\ stdout = <<>>

C9_Witness ==
    /\ repo_tags # {}
    /\ TagListingFailedIn("get_current_version")
    /\ current_version = V000
    /\ CommitLogFailed
    /\ exit_status = "1"

\* C10: the recorded tags are the tag list current_version was computed from:
\* the recorded current_version is one of the recorded tags, or it is v0.0.0
\* and the recorded tags are empty (stated for runs on valid tags).
C10_RecordedTagsConsistent ==
    (RecordBuilt /\ AllValid(gcv_tags))
    => /\ version_details.tags = gcv_tags
       /\ \/ version_details.current_version \in Range(version_details.tags)
          \/ /\ version_details.current_version = V000
             /\ version_details.tags = <<>>

====
